---- MODULE Spec2Model ----
(***************************************************************************)
(* Model of midi_to_abc (src/abc2midi.py, identical copy in src/Merge.py): *)
(* the event-stream parser (two passes over the tracks of a MIDI file) and *)
(* the notation encoder (header, note tokens, bar lines).                  *)
(*                                                                         *)
(* A duration is the float duration_ticks / ticks_per_quarter of the code. *)
(* It is kept as the exact pair <<duration_ticks, ticks_per_quarter>>; the *)
(* comparisons and truncations of the code are computed on that pair.  The *)
(* ticks-per-beat values are 0, -1 and powers of two, for which the float  *)
(* arithmetic of the code is exact.                                        *)
(*                                                                         *)
(* The file is held as: meta, its set_tempo / time_signature messages in   *)
(* file order (all the first pass reads), and the messages the second pass *)
(* reads one by one, where a message that is neither note_on nor note_off  *)
(* (type "other") only advances current_ticks.                             *)
(*                                                                         *)
(* Spec      the whole conversion of a short file                          *)
(* SpecParse a file without tempo / time-signature messages, longer tracks *)
(* SpecEnc   the encoder (lines 188-226) on longer note lists              *)
(***************************************************************************)
EXTENDS Integers, Sequences, FiniteSets, TLC

VARIABLES
    pc,                       \* position in midi_to_abc
    ticks_per_beat,           \* mid.ticks_per_beat
    meta,                     \* the set_tempo / time_signature messages of mid.tracks, in file order
    k,                        \* first pass: index of the next message of meta
    tempo,                    \* BPM
    microseconds_per_beat,
    time_sig_num,
    time_sig_den,
    track,                    \* second pass: number of the track being read (0: none yet)
    current_ticks,
    msg,                      \* second pass: the message being handled
    nread,                    \* second pass: messages read so far
    active_notes,             \* dict pitch -> start tick
    notes,                    \* list of ('note', pitch, duration)
    note_starts,              \* history: start_ticks (line 169) of each appended note
    note_tracks,              \* history: track read when each note was appended
    active_tracks,            \* history: track read when each start of active_notes was stored
    discarded,                \* history: number of active starts overwritten at line 166
    abc_code,                 \* list of lines
    current_measure_duration,
    i,                        \* encoder: index of the next note
    result                    \* returned text, NoResult before return or after raise

\* one call of a function without side effects
VARIABLES
    call,                     \* the function called and its arguments
    ret                       \* its return value, NoRet before the return

\* generate_midi_and_play and abc_to_midi of src/Gemini.py
VARIABLES
    g_pc,                     \* position in generate_midi_and_play / abc_to_midi
    g_prompt,                 \* prompt
    g_tempo,                  \* tempo (text), line 219
    g_response,               \* the text abc_to_midi was called with
    g_abc_code,               \* abc_code of abc_to_midi
    g_temp_abc,               \* the temporary .abc file: "none", "exists", "removed"
    g_midi_file,              \* TRUE once abc_to_midi wrote the temporary .mid file
    g_error                   \* the error raised, NoError when none

\* save_files of src/Gemini.py, one call per caller, and the data folders
VARIABLES
    s_pc,                     \* position of each call in save_files
    file_count,               \* file_count of each call
    prompt_folder,            \* PROMPT_FOLDER: file number -> the call that wrote the file
    midi_folder,              \* MIDI_FOLDER, likewise
    audio_folder              \* AUDIO_FOLDER, likewise

midiVars == <<pc, ticks_per_beat, meta, k, tempo, microseconds_per_beat, time_sig_num,
              time_sig_den, track, current_ticks, msg, nread, active_notes, notes,
              note_starts, note_tracks, active_tracks, discarded, abc_code,
              current_measure_duration, i, result>>
fnVars == <<call, ret>>
geminiVars == <<g_pc, g_prompt, g_tempo, g_response, g_abc_code, g_temp_abc,
                g_midi_file, g_error>>

saveVars == <<s_pc, file_count, prompt_folder, midi_folder, audio_folder>>

vars == <<midiVars, fnVars, geminiVars, saveVars>>

(***************************************************************************)
(* Bounds                                                                  *)
(***************************************************************************)
MaxMeta == 2           \* tempo / time-signature messages in the file
MaxMsgs == 2           \* messages read by the second pass (whole conversion)
MaxParseMsgs == 4      \* messages read by the second pass (file without tempo / time signature)
MaxTracks == 2         \* tracks of the file
MaxEncNotes == 8       \* length of the note list given to the encoder alone
MaxDurTicks == 24      \* ticks of a duration given to a duration marking function
MaxLines == 2          \* lines of a response of the model
MaxNoteLines == 2      \* lines of a note text given to abc_notes_to_midi
MaxSegment == 3        \* elements of a measure given to analyze_melody_segment
MaxSavers == 3         \* concurrent calls of save_files
MaxMeasures == 2       \* measures of a melody given to process_midi_with_chords

TicksPerBeatValues == {-1, 0, 1}
ParseTicksPerBeatValues == {1, 2}
Pitches == {60, 62}
Velocities == {0, 64}
Deltas == {0, 1}
Tempos == {0, 250000, 1000000}
TimeSignatures == {<<3, 4>>, <<2, 4>>}
EncDurationTicks == {0, 2, 3}     \* at 2 ticks per beat: 0, 1.0 and 1.5 quarters
DurTicksPerQuarter == {3, 8}      \* durations in thirds and in eighths of a quarter

NoResult == "<none>"
NoMsg == [type |-> "none"]
NoCall == [fn |-> "none"]
NoRet == [returned |-> FALSE]
NoError == "<no error>"

\* no function call in progress
FnIdle ==
    /\ call = NoCall
    /\ ret = NoRet

\* generate_midi_and_play not running
GeminiIdle ==
    /\ g_pc = "idle"
    /\ g_prompt = <<>>
    /\ g_tempo = <<>>
    /\ g_response = <<>>
    /\ g_abc_code = <<>>
    /\ g_temp_abc = "none"
    /\ g_midi_file = FALSE
    /\ g_error = NoError

Savers == 1..MaxSavers

\* save_files not called, data folders empty
SaveIdle ==
    /\ s_pc = [c \in Savers |-> "idle"]
    /\ file_count = [c \in Savers |-> 0]
    /\ prompt_folder = <<>>
    /\ midi_folder = <<>>
    /\ audio_folder = <<>>

Abs(n) == IF n < 0 THEN -n ELSE n

\* int(x) of Python for x = a / b: truncation toward zero
TruncDiv(a, b) ==
    IF (a >= 0) = (b > 0) THEN Abs(a) \div Abs(b) ELSE -(Abs(a) \div Abs(b))

BoundedSeq(S, n) == UNION {[1..m -> S] : m \in 0..n}

MetaMsgs ==
    {[type |-> "set_tempo", tempo |-> t] : t \in Tempos}
    \cup {[type |-> "time_signature", numerator |-> ts[1], denominator |-> ts[2]] :
             ts \in TimeSignatures}

TrackMsgs ==
    {[type |-> "note_on", note |-> p, velocity |-> v, time |-> d] :
        p \in Pitches, v \in Velocities, d \in Deltas}
    \cup {[type |-> "note_off", note |-> p, time |-> d] : p \in Pitches, d \in Deltas}
    \cup {[type |-> "other", time |-> d] : d \in Deltas}

(***************************************************************************)
(* Text helpers                                                            *)
(***************************************************************************)
RECURSIVE Repeat(_, _)
Repeat(s, n) == IF n <= 0 THEN "" ELSE s \o Repeat(s, n - 1)

RECURSIVE Join(_, _)
Join(lines, sep) ==
    IF Len(lines) = 0 THEN ""
    ELSE IF Len(lines) = 1 THEN lines[1]
    ELSE lines[1] \o sep \o Join(Tail(lines), sep)

NoteNames == <<"C", "^C", "D", "^D", "E", "F", "^F", "G", "^G", "A", "^A", "B">>
NoteNamesLower == <<"c", "^c", "d", "^d", "e", "f", "^f", "g", "^g", "a", "^a", "b">>

\* lines 106-124 with the octave of line 110 not lowered by one
midi_note_to_abc_OctaveOff(midi_number) ==
    LET octave == midi_number \div 12
        note_index == midi_number % 12
        note_name == NoteNames[note_index + 1]
        lower == NoteNamesLower[note_index + 1]
    IN  IF octave = 4 THEN note_name
        ELSE IF octave = 5 THEN lower
        ELSE IF octave > 5 THEN lower \o Repeat("'", octave - 5)
        ELSE IF octave = 3 THEN note_name \o ","
        ELSE note_name \o Repeat(",", 4 - octave)

\* lines 106-124
midi_note_to_abc(midi_number) ==
    LET octave == (midi_number \div 12) - 1
        note_index == midi_number % 12
        note_name == NoteNames[note_index + 1]
        lower == NoteNamesLower[note_index + 1]
    IN  IF octave = 4 THEN note_name
        ELSE IF octave = 5 THEN lower
        ELSE IF octave > 5 THEN lower \o Repeat("'", octave - 5)
        ELSE IF octave = 3 THEN note_name \o ","
        ELSE note_name \o Repeat(",", 4 - octave)

(***************************************************************************)
(* Durations: <<ticks, ticks_per_quarter>> stands for ticks/ticks_per_quarter *)
(***************************************************************************)
\* line 172
Duration(duration_ticks, ticks_per_quarter) == <<duration_ticks, ticks_per_quarter>>

\* line 197
DurIsOne(d) == d[1] = d[2]
\* line 198
DurIsInteger(d) == Abs(d[1]) % Abs(d[2]) = 0
\* abs(duration - c/100) < 0.01
DurNear(d, c) == Abs(100 * d[1] - c * d[2]) < Abs(d[2])
\* line 215
DurAdd(a, d) == <<a[1] + d[1], d[2]>>

\* a duration marking: optional multiplier, optional divisor (<<>> when absent)
Mark(num, den) == [num |-> num, den |-> den]

\* the text of a marking: "", "3", "/2", "3/2"
MarkText(m) ==
    (IF m.num = <<>> THEN "" ELSE ToString(m.num[1]))
    \o (IF m.den = <<>> THEN "" ELSE "/" \o ToString(m.den[1]))

\* lines 196-212: the duration marking chosen for a note
DurationMarkParts(d) ==
    IF DurIsOne(d) THEN Mark(<<>>, <<>>)
    ELSE IF DurIsInteger(d) THEN Mark(<<TruncDiv(d[1], d[2])>>, <<>>)
    ELSE IF DurNear(d, 50) THEN Mark(<<>>, <<2>>)
    ELSE IF DurNear(d, 25) THEN Mark(<<>>, <<4>>)
    ELSE IF DurNear(d, 150) THEN Mark(<<3>>, <<2>>)
    ELSE IF DurNear(d, 75) THEN Mark(<<3>>, <<4>>)
    ELSE Mark(<<TruncDiv(4 * d[1], d[2])>>, <<4>>)

\* lines 196-212: the duration marking appended to the note token
DurationMark(d) == MarkText(DurationMarkParts(d))

\* duration_to_abc, src/abc2midi.py lines 93-104 (dur.quarterLength = d)
duration_to_abc(d) ==
    IF DurIsInteger(d)
    THEN (IF DurIsOne(d) THEN Mark(<<>>, <<>>) ELSE Mark(<<TruncDiv(d[1], d[2])>>, <<>>))
    ELSE IF (2 * d[1]) % d[2] = 0 THEN Mark(<<TruncDiv(2 * d[1], d[2])>>, <<2>>)
    ELSE IF (4 * d[1]) % d[2] = 0 THEN Mark(<<TruncDiv(4 * d[1], d[2])>>, <<4>>)
    ELSE Mark(<<TruncDiv(8 * d[1], d[2])>>, <<8>>)

\* duration_to_abc of midi_to_abc, src/origin.py lines 74-91 (header L:1/8)
origin_duration_to_abc(d) ==
    IF 2 * d[1] = d[2] THEN Mark(<<>>, <<2>>)
    ELSE IF d[1] = d[2] THEN Mark(<<>>, <<>>)
    ELSE IF d[1] = 2 * d[2] THEN Mark(<<2>>, <<>>)
    ELSE IF d[1] = 4 * d[2] THEN Mark(<<4>>, <<>>)
    ELSE IF d[1] = 8 * d[2] THEN Mark(<<8>>, <<>>)
    ELSE Mark(<<TruncDiv(2 * d[1], d[2])>>, <<>>)

NoteToken(n) == midi_note_to_abc(n[2]) \o DurationMark(n[3])

\* line 218 with > in place of >=
MeasureFull_Strict(cur, beats_per_measure) ==
    IF cur[2] > 0 THEN cur[1] > beats_per_measure * cur[2]
    ELSE cur[1] < beats_per_measure * cur[2]

\* line 218: current_measure_duration >= beats_per_measure
MeasureFull(cur, beats_per_measure) ==
    IF cur[2] > 0 THEN cur[1] >= beats_per_measure * cur[2]
    ELSE cur[1] <= beats_per_measure * cur[2]

\* line 223 without the test
FinalBarNeeded_Always(code) == TRUE

\* line 223: abc_code[-1] != "|"
FinalBarNeeded(code) == code[Len(code)] # "|"

\* lines 178-186
Header(bpm, num, den) ==
    << "X:1",
       "T:Converted from MIDI",
       "Q:1/4=" \o ToString(bpm),
       "M:" \o ToString(num) \o "/" \o ToString(den),
       "L:1/4",
       "K:C",
       "" >>

HeaderLen == 7

(***************************************************************************)
(* Parser                                                                  *)
(***************************************************************************)
\* line 164 without the velocity test
IsNoteStart_AnyVelocity(m) == m.type = "note_on"

\* line 164
IsNoteStart(m) == m.type = "note_on" /\ m.velocity > 0
\* line 167
IsNoteEnd(m) == m.type = "note_off" \/ (m.type = "note_on" /\ m.velocity = 0)

\* line 166 keeping a start that is already stored
StoreStart_KeepFirst(active, pitch, ticks) ==
    [p \in DOMAIN active \cup {pitch} |->
        IF p \in DOMAIN active THEN active[p] ELSE ticks]

\* line 166
StoreStart(active, pitch, ticks) ==
    [p \in DOMAIN active \cup {pitch} |-> IF p = pitch THEN ticks ELSE active[p]]

\* line 174 left out
DelActive_Keep(active, pitch) == active

\* line 174
DelActive(active, pitch) == [p \in DOMAIN active \ {pitch} |-> active[p]]

\* line 146
TempoBpm(usec) == 60000000 \div usec

Init ==
    /\ pc = "pass1"
    /\ ticks_per_beat \in TicksPerBeatValues
    /\ meta \in BoundedSeq(MetaMsgs, MaxMeta)
    /\ k = 1
    /\ tempo = 120
    /\ microseconds_per_beat = 500000
    /\ time_sig_num = 4
    /\ time_sig_den = 4
    /\ track = 0
    /\ current_ticks = 0
    /\ msg = NoMsg
    /\ nread = 0
    /\ active_notes = <<>>
    /\ notes = <<>>
    /\ note_starts = <<>>
    /\ note_tracks = <<>>
    /\ active_tracks = <<>>
    /\ discarded = 0
    /\ abc_code = <<>>
    /\ current_measure_duration = <<0, 1>>
    /\ i = 1
    /\ result = NoResult
    /\ FnIdle
    /\ GeminiIdle
    /\ SaveIdle

\* lines 227-229: any exception leaves the function as gr.Error
Raise ==
    /\ pc' = "raised"
    /\ result' = NoResult

\* lines 141-151, one message of the first pass
FirstPassMsg ==
    /\ UNCHANGED <<fnVars, geminiVars, saveVars>>
    /\ pc = "pass1"
    /\ k <= Len(meta)
    /\ LET m == meta[k] IN
         IF m.type = "set_tempo"
         THEN IF m.tempo = 0
              THEN /\ Raise
                   /\ microseconds_per_beat' = m.tempo
                   /\ UNCHANGED <<k, tempo, time_sig_num, time_sig_den>>
              ELSE /\ microseconds_per_beat' = m.tempo
                   /\ tempo' = TempoBpm(m.tempo)
                   /\ k' = k + 1
                   /\ UNCHANGED <<pc, result, time_sig_num, time_sig_den>>
         ELSE /\ time_sig_num' = m.numerator
              /\ time_sig_den' = m.denominator
              /\ k' = k + 1
              /\ UNCHANGED <<pc, result, tempo, microseconds_per_beat>>
    /\ UNCHANGED <<ticks_per_beat, meta, track, current_ticks, msg, nread, active_notes,
                   notes, note_starts, note_tracks, active_tracks, discarded, abc_code,
                   current_measure_duration, i>>

\* lines 153-159: seconds_per_tick divides by ticks_per_beat * 1000000
EndFirstPass ==
    /\ UNCHANGED <<fnVars, geminiVars, saveVars>>
    /\ pc = "pass1"
    /\ k > Len(meta)
    /\ IF ticks_per_beat = 0
       THEN Raise
       ELSE pc' = "pass2" /\ UNCHANGED result
    /\ active_notes' = <<>>
    /\ active_tracks' = <<>>
    /\ UNCHANGED <<ticks_per_beat, meta, k, tempo, microseconds_per_beat, time_sig_num,
                   time_sig_den, track, current_ticks, msg, nread, notes, note_starts,
                   note_tracks, active_tracks, discarded, abc_code, current_measure_duration, i>>

\* lines 160-161: the next track of mid.tracks
BeginTrack ==
    /\ UNCHANGED <<fnVars, geminiVars, saveVars>>
    /\ pc = "pass2"
    /\ track < MaxTracks
    /\ track' = track + 1
    /\ current_ticks' = 0
    /\ UNCHANGED <<pc, ticks_per_beat, meta, k, tempo, microseconds_per_beat, time_sig_num,
                   time_sig_den, msg, nread, active_notes, notes, note_starts, note_tracks, active_tracks,
                   discarded, abc_code, current_measure_duration, i, result>>

\* lines 162-175: one message of the current track
ReadTrackMsg(limit) ==
    /\ UNCHANGED <<fnVars, geminiVars, saveVars>>
    /\ pc = "pass2"
    /\ track >= 1
    /\ nread < limit
    /\ \E m \in TrackMsgs :
         LET ticks == current_ticks + m.time IN
         /\ msg' = m
         /\ nread' = nread + 1
         /\ current_ticks' = ticks
         /\ IF IsNoteStart(m)
            THEN /\ active_notes' = StoreStart(active_notes, m.note, ticks)
                 /\ discarded' = IF m.note \in DOMAIN active_notes
                                 THEN discarded + 1 ELSE discarded
                 /\ active_tracks' = [p \in DOMAIN active_notes' |->
                                        IF p = m.note THEN track ELSE active_tracks[p]]
                 /\ UNCHANGED <<notes, note_starts, note_tracks>>
            ELSE IF IsNoteEnd(m) /\ m.note \in DOMAIN active_notes
            THEN LET start_ticks == active_notes[m.note]
                     duration_ticks == ticks - start_ticks
                 IN  /\ notes' = Append(notes,
                                   <<"note", m.note, Duration(duration_ticks, ticks_per_beat)>>)
                     /\ note_starts' = Append(note_starts, start_ticks)
                     /\ note_tracks' = Append(note_tracks, track)
                     /\ active_notes' = DelActive(active_notes, m.note)
                     /\ active_tracks' = [p \in DOMAIN active_notes' |-> active_tracks[p]]
                     /\ UNCHANGED discarded
            ELSE UNCHANGED <<active_notes, notes, note_starts, note_tracks, active_tracks,
                             discarded>>
    /\ UNCHANGED <<pc, ticks_per_beat, meta, k, tempo, microseconds_per_beat, time_sig_num,
                   time_sig_den, track, abc_code, current_measure_duration, i, result>>

ReadMsg == ReadTrackMsg(MaxMsgs)

\* lines 177-190: tracks exhausted; header and measure counter
EndSecondPass ==
    /\ UNCHANGED <<fnVars, geminiVars, saveVars>>
    /\ pc = "pass2"
    /\ pc' = "encode"
    /\ abc_code' = Header(tempo, time_sig_num, time_sig_den)
    /\ current_measure_duration' = <<0, ticks_per_beat>>
    /\ i' = 1
    /\ UNCHANGED <<ticks_per_beat, meta, k, tempo, microseconds_per_beat, time_sig_num,
                   time_sig_den, track, current_ticks, msg, nread, active_notes, notes,
                   note_starts, note_tracks, active_tracks, discarded, result>>

\* lines 192-220: one note of the list
EncodeNote ==
    /\ UNCHANGED <<fnVars, geminiVars, saveVars>>
    /\ pc = "encode"
    /\ i <= Len(notes)
    /\ LET n == notes[i]
           total == DurAdd(current_measure_duration, n[3])
       IN  IF MeasureFull(total, time_sig_num)
           THEN /\ abc_code' = abc_code \o <<NoteToken(n), "|">>
                /\ current_measure_duration' = <<0, total[2]>>
           ELSE /\ abc_code' = Append(abc_code, NoteToken(n))
                /\ current_measure_duration' = total
    /\ i' = i + 1
    /\ UNCHANGED <<pc, ticks_per_beat, meta, k, tempo, microseconds_per_beat, time_sig_num,
                   time_sig_den, track, current_ticks, msg, nread, active_notes, notes,
                   note_starts, note_tracks, active_tracks, discarded, result>>

\* lines 222-226
Finish ==
    /\ UNCHANGED <<fnVars, geminiVars, saveVars>>
    /\ pc = "encode"
    /\ i > Len(notes)
    /\ LET code == IF FinalBarNeeded(abc_code) THEN Append(abc_code, "|") ELSE abc_code
       IN  /\ abc_code' = code
           /\ result' = Join(code, "\n")
    /\ pc' = "done"
    /\ UNCHANGED <<ticks_per_beat, meta, k, tempo, microseconds_per_beat, time_sig_num,
                   time_sig_den, track, current_ticks, msg, nread, active_notes, notes,
                   note_starts, note_tracks, active_tracks, discarded, current_measure_duration, i>>

Next ==
    \/ FirstPassMsg
    \/ EndFirstPass
    \/ BeginTrack
    \/ ReadMsg
    \/ EndSecondPass
    \/ EncodeNote
    \/ Finish

Spec == Init /\ [][Next]_vars

(***************************************************************************)
(* A file without tempo and time-signature messages: the second pass and   *)
(* the encoder on longer tracks                                            *)
(***************************************************************************)
InitParse ==
    /\ pc = "pass1"
    /\ ticks_per_beat \in ParseTicksPerBeatValues
    /\ meta = <<>>
    /\ k = 1
    /\ tempo = 120
    /\ microseconds_per_beat = 500000
    /\ time_sig_num = 4
    /\ time_sig_den = 4
    /\ track = 0
    /\ current_ticks = 0
    /\ msg = NoMsg
    /\ nread = 0
    /\ active_notes = <<>>
    /\ notes = <<>>
    /\ note_starts = <<>>
    /\ note_tracks = <<>>
    /\ active_tracks = <<>>
    /\ discarded = 0
    /\ abc_code = <<>>
    /\ current_measure_duration = <<0, 1>>
    /\ i = 1
    /\ result = NoResult
    /\ FnIdle
    /\ GeminiIdle
    /\ SaveIdle

ReadParseMsg == ReadTrackMsg(MaxParseMsgs)

NextParse ==
    \/ EndFirstPass
    \/ BeginTrack
    \/ ReadParseMsg
    \/ EndSecondPass
    \/ EncodeNote
    \/ Finish

SpecParse == InitParse /\ [][NextParse]_vars

(***************************************************************************)
(* The encoder alone, lines 188-226, on a note list the parser returned    *)
(***************************************************************************)
EncNotes ==
    BoundedSeq({<<"note", 60, Duration(t, 2)>> : t \in EncDurationTicks}, MaxEncNotes)

InitEnc ==
    /\ pc = "encode"
    /\ ticks_per_beat = 2
    /\ meta = <<>>
    /\ k = 1
    /\ tempo = 120
    /\ microseconds_per_beat = 500000
    /\ \E ts \in TimeSignatures \cup {<<4, 4>>} :
         /\ time_sig_num = ts[1]
         /\ time_sig_den = ts[2]
         /\ abc_code = Header(120, ts[1], ts[2])
    /\ track = 1
    /\ current_ticks = 0
    /\ msg = NoMsg
    /\ nread = 0
    /\ active_notes = <<>>
    /\ notes \in EncNotes
    /\ note_starts = <<>>
    /\ note_tracks = <<>>
    /\ active_tracks = <<>>
    /\ discarded = 0
    /\ current_measure_duration = <<0, 2>>
    /\ i = 1
    /\ result = NoResult
    /\ FnIdle
    /\ GeminiIdle
    /\ SaveIdle

NextEnc ==
    \/ EncodeNote
    \/ Finish

SpecEnc == InitEnc /\ [][NextEnc]_vars


(***************************************************************************)
(* Functions without side effects, one call each                           *)
(***************************************************************************)
\* midi_to_abc not running
MidiIdle ==
    /\ pc = "idle"
    /\ ticks_per_beat = 1
    /\ meta = <<>>
    /\ k = 1
    /\ tempo = 120
    /\ microseconds_per_beat = 500000
    /\ time_sig_num = 4
    /\ time_sig_den = 4
    /\ track = 0
    /\ current_ticks = 0
    /\ msg = NoMsg
    /\ nread = 0
    /\ active_notes = <<>>
    /\ notes = <<>>
    /\ note_starts = <<>>
    /\ note_tracks = <<>>
    /\ active_tracks = <<>>
    /\ discarded = 0
    /\ abc_code = <<>>
    /\ current_measure_duration = <<0, 1>>
    /\ i = 1
    /\ result = NoResult

MidiNumbers == 0..127

Calls_midi_note_to_abc ==
    {[fn |-> "midi_note_to_abc", midi_number |-> n] : n \in MidiNumbers}

Returned(value) == [returned |-> TRUE, value |-> value]

Return_midi_note_to_abc ==
    /\ call.fn = "midi_note_to_abc"
    /\ ret = NoRet
    /\ ret' = Returned(midi_note_to_abc(call.midi_number))
    /\ UNCHANGED <<call, midiVars, geminiVars, saveVars>>

Durations == {Duration(t, q) : t \in 0..MaxDurTicks, q \in DurTicksPerQuarter}

\* the encoders that write a duration marking, and the L: unit of their header
\* as a fraction <<n, m>> of a quarter note
MarkEncoders == {"midi_to_abc", "duration_to_abc", "origin.duration_to_abc"}

\* L:1/4 at src/abc2midi.py line 183, L:1/8 at src/origin.py line 69
BaseUnit(encoder) == IF encoder = "origin.duration_to_abc" THEN <<1, 2>> ELSE <<1, 1>>

Calls_duration_mark ==
    {[fn |-> "duration_mark", encoder |-> e, duration |-> d] :
        e \in MarkEncoders, d \in Durations}

Return_duration_mark ==
    /\ call.fn = "duration_mark"
    /\ ret = NoRet
    /\ ret' = Returned(
           IF call.encoder = "midi_to_abc" THEN DurationMarkParts(call.duration)
           ELSE IF call.encoder = "duration_to_abc" THEN duration_to_abc(call.duration)
           ELSE origin_duration_to_abc(call.duration))
    /\ UNCHANGED <<call, midiVars, geminiVars, saveVars>>

(***************************************************************************)
(* generate_midi_and_play and abc_to_midi of src/Gemini.py.  A text is the *)
(* sequence of its characters.  The model answers with a text of at most   *)
(* MaxLines lines taken from ResponseLines; converter.parse of music21     *)
(* accepts or rejects the temporary file.                                  *)
(***************************************************************************)
Whitespace == {" ", "\n", "\t"}
Digits == {"0", "1", "2", "3", "4", "5", "6", "7", "8", "9"}

RECURSIVE lstrip(_)
lstrip(t) == IF t # <<>> /\ Head(t) \in Whitespace THEN lstrip(Tail(t)) ELSE t

RECURSIVE rstrip(_)
rstrip(t) ==
    IF t # <<>> /\ t[Len(t)] \in Whitespace THEN rstrip(SubSeq(t, 1, Len(t) - 1)) ELSE t

\* str.strip()
strip(t) == rstrip(lstrip(t))

\* line 85, "not abc_code.strip()"
IsEmptyCode_NoStrip(t) == t = <<>>

IsEmptyCode(t) == strip(t) = <<>>

\* the text t has the characters lit from position at on
StartsWith(t, at, lit) ==
    /\ at + Len(lit) - 1 <= Len(t)
    /\ SubSeq(t, at, at + Len(lit) - 1) = lit

\* the positions "^" matches under re.MULTILINE
LineStarts(t) == {at \in 1..Len(t) : at = 1 \/ t[at - 1] = "\n"}

\* the position after the longest run "\s*" from at
RECURSIVE SkipWhitespace(_, _)
SkipWhitespace(t, at) ==
    IF at <= Len(t) /\ t[at] \in Whitespace THEN SkipWhitespace(t, at + 1) ELSE at

\* the position after the longest run "\d*" from at
RECURSIVE SkipDigits(_, _)
SkipDigits(t, at) ==
    IF at <= Len(t) /\ t[at] \in Digits THEN SkipDigits(t, at + 1) ELSE at

\* line 90, re.search(r"^L:\s*1/8", abc_code, re.MULTILINE)
SearchUnit(t) ==
    \E at \in LineStarts(t) :
        /\ StartsWith(t, at, <<"L", ":">>)
        /\ StartsWith(t, SkipWhitespace(t, at + 2), <<"1", "/", "8">>)

\* line 93, re.search(r"^Q:", abc_code, re.MULTILINE)
SearchTempo_FirstLine(t) == StartsWith(t, 1, <<"Q", ":">>)

SearchTempo(t) ==
    \E at \in LineStarts(t) : StartsWith(t, at, <<"Q", ":">>)

\* line 96, re.sub(r"\|(?=[^\|]*)", r":|", abc_code): the lookahead matches
\* the empty text, so every "|" is replaced
RECURSIVE CloseRepeats_OnlyOpen(_)
CloseRepeats_OnlyOpen(t) ==
    IF t = <<>> THEN <<>>
    ELSE IF Len(t) >= 2 /\ t[1] = ":" /\ t[2] = "|"
         THEN <<":", "|">> \o CloseRepeats_OnlyOpen(SubSeq(t, 3, Len(t)))
    ELSE (IF Head(t) = "|" THEN <<":", "|">> ELSE <<Head(t)>>)
         \o CloseRepeats_OnlyOpen(Tail(t))

RECURSIVE CloseRepeats(_)
CloseRepeats(t) ==
    IF t = <<>> THEN <<>>
    ELSE (IF Head(t) = "|" THEN <<":", "|">> ELSE <<Head(t)>>) \o CloseRepeats(Tail(t))

\* lines 88-96: the text written to the temporary file
Normalize(abc, tempo_text) ==
    LET stripped == strip(abc)
        with_unit == IF ~SearchUnit(stripped)
                     THEN <<"L", ":", " ", "1", "/", "8", "\n">> \o stripped
                     ELSE stripped
        with_tempo == IF ~SearchTempo(with_unit)
                      THEN <<"Q", ":", "1", "/", "4", "=">> \o tempo_text \o <<"\n">>
                           \o with_unit
                      ELSE with_unit
    IN  CloseRepeats(with_tempo)

\* re.IGNORECASE on the letters of "bpm"
Lower(c) == IF c = "B" THEN "b" ELSE IF c = "P" THEN "p" ELSE IF c = "M" THEN "m" ELSE c

\* line 217: r'(\d+)\s*bpm' matches from position at
TempoMatchAt(t, at) ==
    LET after == SkipWhitespace(t, SkipDigits(t, at))
    IN  /\ t[at] \in Digits
        /\ after + 2 <= Len(t)
        /\ <<Lower(t[after]), Lower(t[after + 1]), Lower(t[after + 2])>> = <<"b", "p", "m">>

\* line 218, the tempo when the prompt has none
DefaultTempo == <<"1", "2", "0">>

\* lines 217-218: group 1 of the leftmost match, or the default
ExtractTempo(prompt) ==
    LET matches == {at \in 1..Len(prompt) : TempoMatchAt(prompt, at)}
    IN  IF matches = {} THEN DefaultTempo
        ELSE LET at == CHOOSE m \in matches : \A n \in matches : m <= n
             IN  SubSeq(prompt, at, SkipDigits(prompt, at) - 1)

\* prompts typed by the user; the empty one asks for a random prompt
Prompts ==
    { <<>>,
      <<"j", "a", "z", "z">>,
      <<"9", "0", " ", "b", "p", "m">>,
      <<"8", "0", "B", "P", "M">>,
      <<"7", " ", "x", " ", "6", "0", "\t", "b", "p", "m">>,
      <<"b", "p", "m", " ", "9", "0">> }

\* surprise_me_prompts, lines 24-30, shortened to a word and the tempo
SurprisePrompts ==
    { <<"w", "a", "l", "t", "z", ",", " ", "1", "2", "0", " ", "b", "p", "m">>,
      <<"b", "l", "u", "e", "s", ",", " ", "8", "0", " ", "b", "p", "m">> }

\* the L: line of the header written by midi_to_abc, src/abc2midi.py line 183
EncoderUnitLine == <<"L", ":", "1", "/", "4">>

\* the lines a response is made of
ResponseLines ==
    { <<"L", ":", "1", "/", "8">>,
      <<"L", ":", " ", "1", "/", "8">>,
      EncoderUnitLine,
      <<"Q", ":", "1", "/", "4", "=", "9", "0">>,
      <<"K", ":", "C">>,
      <<"C", "|", "D", "|">>,
      <<"|", ":", "C", ":", "|">>,
      <<" ">> }

RECURSIVE JoinLines(_)
JoinLines(lines) ==
    IF lines = <<>> THEN <<>>
    ELSE IF Len(lines) = 1 THEN lines[1]
    ELSE lines[1] \o <<"\n">> \o JoinLines(Tail(lines))

\* response.text
Responses == {JoinLines(ls) : ls \in BoundedSeq(ResponseLines, MaxLines)}

ErrGemini == "Error generating ABC with Gemini"
ErrEmptyCode == "Error converting ABC to MIDI: Received empty ABC code, please try again"
ErrParse == "Error converting ABC to MIDI: converter.parse"
ErrPlay == "Error playing MIDI"

\* lines 211-218: a random prompt for an empty one, then the tempo of the prompt
PickPromptAndTempo ==
    /\ g_pc = "start"
    /\ \E chosen \in IF g_prompt = <<>> THEN SurprisePrompts ELSE {g_prompt} :
           /\ g_prompt' = chosen
           /\ g_tempo' = ExtractTempo(chosen)
    /\ g_pc' = "generate_abc_with_gemini"
    /\ UNCHANGED <<g_response, g_abc_code, g_temp_abc, g_midi_file, g_error>>
    /\ UNCHANGED <<midiVars, fnVars, saveVars>>

\* line 220 and generate_abc_with_gemini, lines 62-80
GenerateAbc ==
    /\ g_pc = "generate_abc_with_gemini"
    /\ \/ \E text \in Responses :
              IF text = <<>>
              THEN /\ g_pc' = "raised"
                   /\ g_error' = ErrGemini
                   /\ UNCHANGED g_response
              ELSE /\ g_pc' = "abc_to_midi"
                   /\ g_response' = text
                   /\ UNCHANGED g_error
       \/ /\ g_pc' = "raised"
          /\ g_error' = ErrGemini
          /\ UNCHANGED g_response
    /\ UNCHANGED <<g_prompt, g_tempo, g_abc_code, g_temp_abc, g_midi_file>>
    /\ UNCHANGED <<midiVars, fnVars, saveVars>>

\* abc_to_midi, lines 84-101 (and the handler of lines 124-125)
PrepareAbc ==
    /\ g_pc = "abc_to_midi"
    /\ IF IsEmptyCode(g_response)
       THEN /\ g_pc' = "raised"
            /\ g_error' = ErrEmptyCode
            /\ UNCHANGED <<g_abc_code, g_temp_abc>>
       ELSE /\ g_pc' = "converter.parse"
            /\ g_abc_code' = Normalize(g_response, g_tempo)
            /\ g_temp_abc' = "exists"
            /\ UNCHANGED g_error
    /\ UNCHANGED <<g_prompt, g_tempo, g_response, g_midi_file>>
    /\ UNCHANGED <<midiVars, fnVars, saveVars>>

\* abc_to_midi, lines 104-123: music21 accepts the file ...
ParseAndWrite ==
    /\ g_pc = "converter.parse"
    /\ g_pc' = "play_midi"
    /\ g_midi_file' = TRUE
    /\ g_temp_abc' = "removed"
    /\ UNCHANGED <<g_prompt, g_tempo, g_response, g_abc_code, g_error>>
    /\ UNCHANGED <<midiVars, fnVars, saveVars>>

\* ... or raises (lines 104, 124-125)
ParseFails ==
    /\ g_pc = "converter.parse"
    /\ g_pc' = "raised"
    /\ g_error' = ErrParse
    /\ UNCHANGED <<g_prompt, g_tempo, g_response, g_abc_code, g_temp_abc, g_midi_file>>
    /\ UNCHANGED <<midiVars, fnVars, saveVars>>

\* after play_midi, line 222: save_files is next, or the error leaves the try
AfterPlay_SaveAnyway(ok) == "save_files"

AfterPlay(ok) == IF ok THEN "save_files" ELSE "raised"

\* line 222, play_midi (lines 173-183): the audio file is rendered or
\* gr.Error is raised; on success save_files is called (line 224)
PlayMidi ==
    /\ g_pc = "play_midi"
    /\ \E ok \in BOOLEAN :
           /\ g_pc' = AfterPlay(ok)
           /\ g_error' = IF ok THEN g_error ELSE ErrPlay
           /\ s_pc' = IF AfterPlay(ok) = "save_files"
                      THEN [s_pc EXCEPT ![1] = "listdir"]
                      ELSE s_pc
    /\ UNCHANGED <<g_prompt, g_tempo, g_response, g_abc_code, g_temp_abc, g_midi_file>>
    /\ UNCHANGED <<file_count, prompt_folder, midi_folder, audio_folder>>
    /\ UNCHANGED <<midiVars, fnVars>>

\* a file written under a number: open(..., "w") and shutil.move replace a
\* file of that name
StoreFile(folder, number, c) ==
    [n \in DOMAIN folder \cup {number} |-> IF n = number THEN c ELSE folder[n]]

\* save_files, line 188: file_count = len(os.listdir(PROMPT_FOLDER)) + 1
ListPrompts(c) ==
    /\ s_pc[c] = "listdir"
    /\ file_count' = [file_count EXCEPT ![c] = Cardinality(DOMAIN prompt_folder) + 1]
    /\ s_pc' = [s_pc EXCEPT ![c] = "prompt"]
    /\ UNCHANGED <<prompt_folder, midi_folder, audio_folder>>
    /\ UNCHANGED <<midiVars, fnVars, geminiVars>>

\* save_files, lines 191-195
WritePrompt(c) ==
    /\ s_pc[c] = "prompt"
    /\ prompt_folder' = StoreFile(prompt_folder, file_count[c], c)
    /\ s_pc' = [s_pc EXCEPT ![c] = "midi"]
    /\ UNCHANGED <<file_count, midi_folder, audio_folder>>
    /\ UNCHANGED <<midiVars, fnVars, geminiVars>>

\* save_files, lines 198-200
MoveMidi(c) ==
    /\ s_pc[c] = "midi"
    /\ midi_folder' = StoreFile(midi_folder, file_count[c], c)
    /\ s_pc' = [s_pc EXCEPT ![c] = "audio"]
    /\ UNCHANGED <<file_count, prompt_folder, audio_folder>>
    /\ UNCHANGED <<midiVars, fnVars, geminiVars>>

\* save_files, lines 203-207, and the return of generate_midi_and_play
\* (lines 224-226) when it made the call
MoveAudio(c) ==
    /\ s_pc[c] = "audio"
    /\ audio_folder' = StoreFile(audio_folder, file_count[c], c)
    /\ s_pc' = [s_pc EXCEPT ![c] = "returned"]
    /\ g_pc' = IF g_pc = "save_files" THEN "returned" ELSE g_pc
    /\ UNCHANGED <<file_count, prompt_folder, midi_folder>>
    /\ UNCHANGED <<g_prompt, g_tempo, g_response, g_abc_code, g_temp_abc, g_midi_file,
                   g_error>>
    /\ UNCHANGED <<midiVars, fnVars>>

SaveStep == \E c \in Savers : ListPrompts(c) \/ WritePrompt(c) \/ MoveMidi(c) \/ MoveAudio(c)

InitDecode ==
    /\ MidiIdle
    /\ FnIdle
    /\ g_pc = "start"
    /\ g_prompt \in Prompts
    /\ g_tempo = <<>>
    /\ g_response = <<>>
    /\ g_abc_code = <<>>
    /\ g_temp_abc = "none"
    /\ g_midi_file = FALSE
    /\ g_error = NoError
    /\ SaveIdle

NextDecode ==
    \/ PickPromptAndTempo
    \/ GenerateAbc
    \/ PrepareAbc
    \/ ParseAndWrite
    \/ ParseFails
    \/ PlayMidi
    \/ SaveStep

SpecDecode == InitDecode /\ [][NextDecode]_vars

(***************************************************************************)
(* Concurrent calls of save_files (one per request being served), each     *)
(* after its own play_midi returned                                        *)
(***************************************************************************)
InitSave ==
    /\ MidiIdle
    /\ FnIdle
    /\ GeminiIdle
    /\ s_pc = [c \in Savers |-> "listdir"]
    /\ file_count = [c \in Savers |-> 0]
    /\ prompt_folder = <<>>
    /\ midi_folder = <<>>
    /\ audio_folder = <<>>

NextSave == SaveStep

SpecSave == InitSave /\ [][NextSave]_vars


(***************************************************************************)
(* abc_notes_to_midi and convert_abc_and_play of src/Merge.py.  The note   *)
(* text is held as its lines, a line as its parts (line.split()), a part   *)
(* as its characters.                                                      *)
(***************************************************************************)
None == [none |-> TRUE]

\* a file written by a conversion
File(name) == [path |-> name]

Raised(error) == [returned |-> FALSE, raised |-> error]

\* the texts float() accepts here: sign, digits, at most one point
IsFloatText(part) ==
    LET body == IF part # <<>> /\ Head(part) \in {"-", "+"} THEN Tail(part) ELSE part
    IN  /\ \A p \in 1..Len(body) : body[p] \in Digits \cup {"."}
        /\ Cardinality({p \in 1..Len(body) : body[p] = "."}) <= 1
        /\ \E p \in 1..Len(body) : body[p] \in Digits

\* the texts int() accepts here: sign, digits
IsIntText(part) ==
    LET body == IF part # <<>> /\ Head(part) \in {"-", "+"} THEN Tail(part) ELSE part
    IN  /\ body # <<>>
        /\ \A p \in 1..Len(body) : body[p] \in Digits

\* pitch written for a drum note, src/Merge.py lines 62 and 125
DrumPitch == <<"-", "2", "1", "4", "7", "4", "8", "3", "6", "4", "8">>

\* lines 91-104 for one line: the note it adds, if any
ParsesAsNote(parts) ==
    /\ Head(Head(parts)) # "#"
    /\ Len(parts) >= 5
    /\ Head(Head(parts)) \in Digits
    /\ IsFloatText(parts[1])
    /\ IsIntText(parts[2])
    /\ IsFloatText(parts[3])
    /\ IsIntText(parts[4])

\* lines 86-104: notes, from the lines that are not blank
RECURSIVE ParseNoteLines(_)
ParseNoteLines(lines) ==
    IF lines = <<>> THEN <<>>
    ELSE IF Head(lines) # <<>> /\ ParsesAsNote(Head(lines))
         THEN <<SubSeq(Head(lines), 1, 4)>> \o ParseNoteLines(Tail(lines))
    ELSE ParseNoteLines(Tail(lines))

\* abc_notes_to_midi, src/Merge.py lines 81-154
abc_notes_to_midi(lines) ==
    LET parsed == ParseNoteLines(lines)
        added == SelectSeq(parsed, LAMBDA note : note[2] # DrumPitch)
    IN  IF parsed = <<>> THEN None
        ELSE [path |-> "temp.mid", notes_added |-> Len(added)]

NoteLines ==
    { <<>>,
      << <<"#">>, <<"N", "e", "w">> >>,
      << <<"0", ".", "0">>, <<"6", "0">>, <<"0", ".", "5">>, <<"6", "4">>, <<"C", "4">> >>,
      << <<"1">>, <<"6", "2">>, <<"1">>, <<"6", "4">>, <<"D", "4">>, <<"x">> >>,
      << <<"0", ".", "0">>, DrumPitch, <<"0", ".", "5">>, <<"6", "4">>, <<"D">> >>,
      << <<"0", ".", "0">>, <<"6", "0">>, <<"0", ".", "5">>, <<"6", "4">> >>,
      << <<"0", ".", "0">>, <<"6", "0", ".", "5">>, <<"1">>, <<"6", "4">>, <<"C", "4">> >>,
      << <<"1", "x">>, <<"6", "0">>, <<"1">>, <<"6", "4">>, <<"C", "4">> >>,
      << <<"-", "1">>, <<"6", "0">>, <<"1">>, <<"6", "4">>, <<"C", "4">> >> }

Calls_abc_notes_to_midi ==
    {[fn |-> "abc_notes_to_midi", lines |-> ls] : ls \in BoundedSeq(NoteLines, MaxNoteLines)}

Return_abc_notes_to_midi ==
    /\ call.fn = "abc_notes_to_midi"
    /\ ret = NoRet
    /\ ret' = Returned(abc_notes_to_midi(call.lines))
    /\ UNCHANGED <<call, midiVars, geminiVars, saveVars>>

Calls_convert_abc_and_play ==
    {[fn |-> "convert_abc_and_play", abc_code |-> text] : text \in ResponseLines \cup {<<>>}}

\* convert_abc_and_play, src/Merge.py lines 191-198; abc_to_midi (lines
\* 158-189) returns the name of the file it wrote or raises
Return_convert_abc_and_play ==
    /\ call.fn = "convert_abc_and_play"
    /\ ret = NoRet
    /\ \/ ret' = Raised("Error converting ABC to MIDI")
       \/ \E midi_file_path \in {"temp.mid"} :
              IF midi_file_path # ""
              THEN \/ ret' = Returned(<<File(midi_file_path), File("temp.flac")>>)
                   \/ ret' = Raised("Error playing MIDI")
              ELSE ret' = Returned(<<None, None>>)
    /\ UNCHANGED <<call, midiVars, geminiVars, saveVars>>

(***************************************************************************)
(* analyze_melody_segment of src/abc2midi.py (same in src/Merge.py).  An   *)
(* element of a measure is a Note with its pitch class or a Rest; the key  *)
(* is given by the pitch class of its tonic.                               *)
(***************************************************************************)
Rest == [kind |-> "Rest"]

Note(pitch_class) == [kind |-> "Note", pitchClass |-> pitch_class]

PitchClasses == 0..11

Tonics == {0, 7}

\* lines 251-257: scale_degrees
ScaleDegrees(elements, tonic) ==
    LET pitched == SelectSeq(elements, LAMBDA n : n.kind = "Note")
    IN  [p \in 1..Len(pitched) |-> (pitched[p].pitchClass - tonic) % 12]

\* lines 264-272: chord_options, and the default of chord_options.get
ChordOptions(degree) ==
    CASE degree = 0 -> <<"I", "vi">>
      [] degree = 2 -> <<"ii", "V7">>
      [] degree = 4 -> <<"iii", "I">>
      [] degree = 5 -> <<"IV", "ii">>
      [] degree = 7 -> <<"V", "vii°">>
      [] degree = 9 -> <<"vi", "IV">>
      [] degree = 11 -> <<"vii°", "V">>
      [] OTHER -> <<"I">>

\* lines 275-277: the keys of degree_counts, in the order of their insertion
RECURSIVE DegreeKeys(_)
DegreeKeys(degrees) ==
    IF degrees = <<>> THEN <<>>
    ELSE LET earlier == DegreeKeys(SubSeq(degrees, 1, Len(degrees) - 1))
             deg == degrees[Len(degrees)]
         IN  IF \E p \in 1..Len(earlier) : earlier[p] = deg
             THEN earlier
             ELSE Append(earlier, deg)

\* lines 275-277: degree_counts[deg]
DegreeCount(degrees, deg) == Cardinality({p \in 1..Len(degrees) : degrees[p] = deg})

\* line 281, max(degree_counts.items(), key=lambda x: x[1])[0]: the first
\* key, in insertion order, whose count no other key exceeds
MainDegree(degrees) ==
    LET keys == DegreeKeys(degrees)
        best == {p \in 1..Len(keys) :
                    \A q \in 1..Len(keys) :
                        DegreeCount(degrees, keys[q]) <= DegreeCount(degrees, keys[p])}
    IN  keys[CHOOSE p \in best : \A q \in best : p <= q]

\* line 282, chord_options.get(main_degree, ['I'])[0]
ChordLabel_SecondOption(main_degree) ==
    ChordOptions(main_degree)[Len(ChordOptions(main_degree))]

ChordLabel(main_degree) == ChordOptions(main_degree)[1]

\* analyze_melody_segment, lines 246-284 (key.tonic.pitchClass = tonic)
analyze_melody_segment(elements, tonic) ==
    IF elements = <<>> THEN None
    ELSE LET scale_degrees == ScaleDegrees(elements, tonic)
         IN  IF scale_degrees = <<>> THEN "I"
             ELSE ChordLabel(MainDegree(scale_degrees))

Calls_analyze_melody_segment ==
    {[fn |-> "analyze_melody_segment", notes |-> elements, tonic |-> tonic] :
        elements \in BoundedSeq({Rest} \cup {Note(c) : c \in PitchClasses}, MaxSegment),
        tonic \in Tonics}

Return_analyze_melody_segment ==
    /\ call.fn = "analyze_melody_segment"
    /\ ret = NoRet
    /\ ret' = Returned(analyze_melody_segment(call.notes, call.tonic))
    /\ UNCHANGED <<call, midiVars, geminiVars, saveVars>>

(***************************************************************************)
(* process_midi_with_chords and create_chord_from_roman of                 *)
(* src/abc2midi.py (same in src/Merge.py).  The melody part is the         *)
(* sequence of its measures, a measure the sequence of its elements: Note, *)
(* Rest, or a Chord of simultaneous notes.  roman.RomanNumeral of music21  *)
(* builds the chord of a label or raises for the detected key.             *)
(***************************************************************************)
MelodyChord == [kind |-> "Chord"]

\* the measures a melody part is made of
MelodyMeasures ==
    { <<>>,
      <<Rest>>,
      <<Note(0)>>,
      <<Note(2), Note(0)>>,
      <<Rest, Note(4)>>,
      <<MelodyChord, Note(0)>>,
      <<MelodyChord>> }

\* melody_part.getTimeSignatures()[0], as <<numerator, denominator>>
ChordTimeSignatures == {<<4, 4>>, <<3, 4>>}

\* line 336, measure.getElementsByClass(['Note', 'Rest'])
MeasureElements(measure) == SelectSeq(measure, LAMBDA e : e.kind \in {"Note", "Rest"})

\* line 341, "if roman_numeral": analyze_melody_segment returns None for an
\* empty list only (lines 248-249), and a non-empty label otherwise
HasLabel(elements) == elements # <<>>

\* lines 346 and 356, duration.Duration(4.0)
ChordQuarterLength == 4

\* line 290: the chord of rn.pitches
RomanChord(roman_numeral) ==
    [kind |-> "Chord", figure |-> roman_numeral, quarterLength |-> ChordQuarterLength]

\* line 294, chord.Chord(key.tonic.pitches): key.tonic is one pitch, not a
\* triad; asking it for pitches raises AttributeError, or gives that pitch
TonicPitchChord ==
    [kind |-> "Chord", figure |-> "tonic pitch", quarterLength |-> ChordQuarterLength]

FallbackOutcomes == {"AttributeError", "tonic pitch"}

\* create_chord_from_roman, lines 286-294, which raises when the handler does
ChordRaises(roman_raises, fallback) == roman_raises /\ fallback = "AttributeError"

create_chord_from_roman(roman_numeral, roman_raises) ==
    IF roman_raises THEN TonicPitchChord ELSE RomanChord(roman_numeral)

\* lines 336-356: what one measure adds to new_measure_chord
ChordMeasure(measure, tonic, roman_raises) ==
    LET measure_elements == MeasureElements(measure)
    IN  IF measure_elements = <<>> THEN <<>>
        ELSE IF HasLabel(measure_elements)
             THEN <<create_chord_from_roman(
                        analyze_melody_segment(measure_elements, tonic), roman_raises)>>
        ELSE <<[kind |-> "Rest", quarterLength |-> ChordQuarterLength]>>

\* process_midi_with_chords, lines 296-386
process_midi_with_chords(measures, tonic, roman_raises, fallback) ==
    IF /\ ChordRaises(roman_raises, fallback)
       /\ \E m \in 1..Len(measures) : MeasureElements(measures[m]) # <<>>
    THEN Raised("Error processing MIDI file")
    ELSE Returned([melody_part_new |-> [m \in 1..Len(measures) |-> MeasureElements(measures[m])],
                   chord_part |-> [m \in 1..Len(measures) |->
                                      ChordMeasure(measures[m], tonic, roman_raises)],
                   key |-> tonic])

Calls_process_midi_with_chords ==
    {[fn |-> "process_midi_with_chords", measures |-> ms, tonic |-> tonic, ts |-> ts,
      roman_raises |-> raises, fallback |-> fallback] :
        ms \in BoundedSeq(MelodyMeasures, MaxMeasures), tonic \in Tonics,
        ts \in ChordTimeSignatures, raises \in BOOLEAN, fallback \in FallbackOutcomes}

Return_process_midi_with_chords ==
    /\ call.fn = "process_midi_with_chords"
    /\ ret = NoRet
    /\ ret' = process_midi_with_chords(call.measures, call.tonic, call.roman_raises,
                                       call.fallback)
    /\ UNCHANGED <<call, midiVars, geminiVars, saveVars>>

(***************************************************************************)
(* The functions above, one call each                                      *)
(***************************************************************************)
Calls ==
    Calls_midi_note_to_abc \cup Calls_duration_mark \cup Calls_abc_notes_to_midi
        \cup Calls_convert_abc_and_play \cup Calls_analyze_melody_segment
        \cup Calls_process_midi_with_chords

InitFn ==
    /\ MidiIdle
    /\ GeminiIdle
    /\ SaveIdle
    /\ call \in Calls
    /\ ret = NoRet

NextFn ==
    \/ Return_midi_note_to_abc
    \/ Return_duration_mark
    \/ Return_abc_notes_to_midi
    \/ Return_convert_abc_and_play
    \/ Return_analyze_melody_segment
    \/ Return_process_midi_with_chords

SpecFn == InitFn /\ [][NextFn]_vars

(***************************************************************************)
(* Properties                                                              *)
(***************************************************************************)
\* a step of the second pass that handles the message msg'
ReadStep == pc = "pass2" /\ nread' = nread + 1

EvIsStart(m) == m.type = "note_on" /\ m.velocity > 0
EvIsEnd(m) == m.type = "note_off" \/ (m.type = "note_on" /\ m.velocity = 0)
EvPitch(m, q) == m.type # "other" /\ m.note = q

\* C1: a note-start for a pitch that already has an active start overwrites
\* the stored start with the current tick and emits no note; a stored start
\* is touched by no message of another pitch; the next note-end of the pitch
\* appends exactly one note, measured from the stored (later) start.
C1_RepeatedStartOverwrites ==
    [][ReadStep =>
         LET m == msg'
             now == current_ticks + m.time
         IN  /\ (EvIsStart(m) /\ m.note \in DOMAIN active_notes) =>
                   /\ notes' = notes
                   /\ DOMAIN active_notes' = DOMAIN active_notes
                   /\ active_notes'[m.note] = now
             /\ \A q \in DOMAIN active_notes :
                   ~EvPitch(m, q) =>
                       q \in DOMAIN active_notes' /\ active_notes'[q] = active_notes[q]
             /\ (EvIsEnd(m) /\ m.note \in DOMAIN active_notes) =>
                   /\ Len(notes') = Len(notes) + 1
                   /\ SubSeq(notes', 1, Len(notes)) = notes
                   /\ notes'[Len(notes')][2] = m.note
                   /\ notes'[Len(notes')][3] = <<now - active_notes[m.note], ticks_per_beat>>
    ]_vars

\* C1 witness: three messages of one track at 1 tick per beat, one start
\* overwritten, then the note-end at tick 2: one note, start 1.0, duration 1.0
C1_Witness ==
    /\ pc = "pass2"
    /\ ticks_per_beat = 1
    /\ track = 1
    /\ nread = 3
    /\ discarded = 1
    /\ EvIsEnd(msg)
    /\ current_ticks = 2
    /\ notes = << <<"note", msg.note, <<1, 1>> >> >>
    /\ note_starts = <<1>>
    /\ active_notes = <<>>

\* C2: a note-end for a pitch with an active start appends one note whose
\* start is the stored start tick and whose duration is (current tick - stored
\* start) over ticks_per_beat, and removes the entry, so that a note-end of
\* the same pitch directly after it appends nothing.
C2_NoteEndEmitsAndClears ==
    /\ [][(ReadStep /\ EvIsEnd(msg') /\ msg'.note \in DOMAIN active_notes) =>
             LET p == msg'.note
                 start_ticks == active_notes[p]
             IN  /\ notes' = Append(notes,
                        <<"note", p, <<current_ticks' - start_ticks, ticks_per_beat>> >>)
                 /\ note_starts' = Append(note_starts, start_ticks)
                 /\ current_ticks' = current_ticks + msg'.time
                 /\ p \notin DOMAIN active_notes'
                 /\ \A q \in DOMAIN active_notes \ {p} :
                        q \in DOMAIN active_notes' /\ active_notes'[q] = active_notes[q]
         ]_vars
    /\ [][(ReadStep /\ EvIsEnd(msg) /\ EvIsEnd(msg') /\ msg'.note = msg.note) =>
             notes' = notes /\ active_notes' = active_notes
         ]_vars

\* C2 witness: at 2 ticks per beat a start at tick 1 closed at tick 2 by a
\* note_on of velocity 0: start 0.5, duration 0.5, entry removed
C2_Witness ==
    /\ pc = "pass2"
    /\ ticks_per_beat = 2
    /\ nread = 2
    /\ msg.type = "note_on"
    /\ msg.velocity = 0
    /\ notes = << <<"note", msg.note, <<1, 2>> >> >>
    /\ note_starts = <<1>>
    /\ current_ticks = 2
    /\ active_notes = <<>>

\* C3: a note-end for a pitch without active start changes neither the active
\* table nor the emitted notes and does not raise.
C3_UnmatchedEndDropped ==
    [][(ReadStep /\ EvIsEnd(msg') /\ msg'.note \notin DOMAIN active_notes) =>
          /\ active_notes' = active_notes
          /\ notes' = notes
          /\ pc' = "pass2"
          /\ result' = result
    ]_vars

\* C3 witness: a note-end was handled while only the other pitch was active
C3_Witness ==
    /\ pc = "pass2"
    /\ EvIsEnd(msg)
    /\ notes = <<>>
    /\ DOMAIN active_notes # {}
    /\ msg.note \notin DOMAIN active_notes

FirstOfType(seq, type) ==
    LET idx == {j \in 1..Len(seq) : seq[j].type = type}
    IN  seq[CHOOSE j \in idx : \A h \in idx : j <= h]

HasType(seq, type) == \E j \in 1..Len(seq) : seq[j].type = type

\* C4: once the first pass is over, the tempo and the time signature are those
\* of the first set_tempo and the first time_signature message of the file,
\* and 120 BPM, 4/4 without such a message.
C4_FirstTempoAndSignatureWin ==
    pc \in {"pass2", "encode", "done"} =>
        /\ tempo = IF HasType(meta, "set_tempo")
                   THEN 60000000 \div FirstOfType(meta, "set_tempo").tempo
                   ELSE 120
        /\ <<time_sig_num, time_sig_den>> =
               IF HasType(meta, "time_signature")
               THEN <<FirstOfType(meta, "time_signature").numerator,
                      FirstOfType(meta, "time_signature").denominator>>
               ELSE <<4, 4>>

\* C5: every note the parser emits has duration > 0 (ticks_per_beat > 0).
C5_EmittedDurationsPositive ==
    ticks_per_beat > 0 =>
        \A j \in 1..Len(notes) : notes[j][3][1] > 0

\* C6: the conversion raises if and only if ticks_per_beat <= 0.
C6_RaisesIffTicksPerBeatNotPositive ==
    /\ pc = "raised" => ticks_per_beat <= 0
    /\ pc = "done" => ticks_per_beat > 0

\* position in code of the token of the j-th note: the j-th line after the
\* header that is no bar line
RECURSIVE NoteTokenPos(_, _, _)
NoteTokenPos(code, from, j) ==
    IF from > Len(code) THEN 0
    ELSE IF code[from] = "|" THEN NoteTokenPos(code, from + 1, j)
    ELSE IF j = 1 THEN from
    ELSE NoteTokenPos(code, from + 1, j - 1)

\* C7: in the returned text of a single-track file the token of a note that
\* starts earlier precedes the token of a note that starts later.
C7_TokensInStartOrder ==
    (pc = "done" /\ track <= 1 /\ ticks_per_beat > 0
        /\ \A j \in 1..Len(notes) : notes[j][3][1] > 0) =>
        \A a, b \in 1..Len(notes) :
            note_starts[a] < note_starts[b] =>
                NoteTokenPos(abc_code, HeaderLen + 1, a)
                    < NoteTokenPos(abc_code, HeaderLen + 1, b)

\* the lines after the header
Body(code) == SubSeq(code, HeaderLen + 1, Len(code))

RECURSIVE BarCount(_)
BarCount(lines) ==
    IF Len(lines) = 0 THEN 0
    ELSE (IF lines[1] = "|" THEN 1 ELSE 0) + BarCount(Tail(lines))

\* number of lines after the last bar line
RECURSIVE OpenMeasureLen(_)
OpenMeasureLen(lines) ==
    IF Len(lines) = 0 \/ lines[Len(lines)] = "|" THEN 0
    ELSE 1 + OpenMeasureLen(SubSeq(lines, 1, Len(lines) - 1))

RECURSIVE SumTicks(_, _, _)
SumTicks(seq, from, to) ==
    IF from > to THEN 0 ELSE seq[from][3][1] + SumTicks(seq, from + 1, to)

\* C8: a note list holding a note of non-positive duration is rejected: no
\* text is returned for it.
C8_NonPositiveDurationRejected ==
    (\E j \in 1..Len(notes) : notes[j][3][1] <= 0) => result = NoResult

\* C9: each encoded note appends its token; exactly when the running sum with
\* that note reaches time_sig_num quarters, one bar line follows the token and
\* the sum restarts at zero, otherwise no bar line is appended and the sum is
\* kept; between notes the sum is that of the notes after the last bar line
\* and is below the threshold.
C9_BarLineWhenMeasureFull ==
    /\ [][(pc = "encode" /\ i' = i + 1) =>
             LET d == notes[i][3]
                 total == current_measure_duration[1] + d[1]
                 old == Len(abc_code)
             IN  /\ SubSeq(abc_code', 1, old) = abc_code
                 /\ abc_code'[old + 1] # "|"
                 /\ IF total >= time_sig_num * d[2]
                    THEN /\ Len(abc_code') = old + 2
                         /\ abc_code'[old + 2] = "|"
                         /\ current_measure_duration'[1] = 0
                    ELSE /\ Len(abc_code') = old + 1
                         /\ current_measure_duration' = <<total, d[2]>>
         ]_vars
    /\ [](pc = "encode" =>
             /\ current_measure_duration[1] < time_sig_num * ticks_per_beat
             /\ current_measure_duration[1] =
                    SumTicks(notes, i - OpenMeasureLen(Body(abc_code)), i - 1))

\* C9 witness: in 4/4 three notes of 1.5 quarters: the third token takes the
\* sum to 4.5 >= 4 and is followed by the only bar line, the sum is zero again
C9_Witness ==
    /\ pc = "encode"
    /\ time_sig_num = 4
    /\ i = 4
    /\ \A j \in 1..3 : notes[j][3] = <<3, 2>>
    /\ Body(abc_code) = <<"C3/2", "C3/2", "C3/2", "|">>
    /\ current_measure_duration[1] = 0

\* C10: the returned body ends with a bar line that no bar line precedes, no
\* two bar lines are adjacent, and eight notes of one quarter in 4/4 give
\* exactly two bar lines.
C10_OneTrailingBarNoEmptyMeasure ==
    pc = "done" =>
        LET body == Body(abc_code) IN
        /\ Len(body) >= 1
        /\ body[Len(body)] = "|"
        /\ \A j \in 1..(Len(body) - 1) : ~(body[j] = "|" /\ body[j + 1] = "|")
        /\ (/\ time_sig_num = 4
            /\ Len(notes) = 8
            /\ \A j \in 1..8 : notes[j][3][1] = notes[j][3][2])
              => BarCount(body) = 2

\* C10 witness: eight quarter notes in 4/4, returned with two bar lines
C10_Witness ==
    /\ pc = "done"
    /\ time_sig_num = 4
    /\ Len(notes) = 8
    /\ \A j \in 1..8 : notes[j][3] = <<2, 2>>
    /\ Body(abc_code) = <<"C", "C", "C", "C", "|", "C", "C", "C", "C", "|">>

ClaimLetterUpper == <<"C", "C", "D", "D", "E", "F", "F", "G", "G", "A", "A", "B">>
ClaimLetterLower == <<"c", "c", "d", "d", "e", "f", "f", "g", "g", "a", "a", "b">>
ClaimSharp == {1, 3, 6, 8, 10}

ClaimPitchToken(p) ==
    LET sharp == IF (p % 12) \in ClaimSharp THEN "^" ELSE ""
        upper == ClaimLetterUpper[(p % 12) + 1]
        lower == ClaimLetterLower[(p % 12) + 1]
    IN  IF p >= 84 THEN sharp \o lower \o Repeat("'", (p - 72) \div 12)
        ELSE IF p >= 72 THEN sharp \o lower
        ELSE IF p >= 60 THEN sharp \o upper
        ELSE sharp \o upper \o Repeat(",", (71 - p) \div 12)

\* C11: the token of a MIDI pitch is its letter, ^ before it for a sharp,
\* upper case in 60..71, lower case from 72, one apostrophe per octave above
\* 72..83 and one comma per octave below 60..71; no other pitch of 0..127 has
\* the same token.
C11_PitchToken ==
    (call.fn = "midi_note_to_abc" /\ ret # NoRet) =>
        /\ ret.value = ClaimPitchToken(call.midi_number)
        /\ \A q \in 0..127 :
               q # call.midi_number => midi_note_to_abc(q) # ret.value

\* C11 witness: pitch 37 (C sharp, two octaves below the reference) gave ^C,,
C11_Witness ==
    /\ call.fn = "midi_note_to_abc"
    /\ call.midi_number = 37
    /\ ret # NoRet
    /\ ret.value = "^C,,"

\* the number a duration marking stands for, as <<n, m>> for n/m of the unit
MarkValue(m) ==
    <<IF m.num = <<>> THEN 1 ELSE m.num[1], IF m.den = <<>> THEN 1 ELSE m.den[1]>>

\* C12: the marking stands for duration / base unit exactly when that ratio
\* is whole or a fraction over 2, 4 or 8 (no marking for one unit, a bare
\* integer when whole), and for the nearest multiple of one eighth of the
\* unit otherwise.
C12_MarkExactOrNearestEighth ==
    (call.fn = "duration_mark" /\ ret # NoRet) =>
        LET unit == BaseUnit(call.encoder)
            \* ratio a/b = duration / unit
            a == call.duration[1] * unit[2]
            b == call.duration[2] * unit[1]
            v == MarkValue(ret.value)
        IN  IF (8 * a) % b = 0
            THEN /\ v[1] * b = a * v[2]
                 /\ (a = b) => ret.value = Mark(<<>>, <<>>)
                 /\ (a % b = 0 /\ a # b) => ret.value = Mark(<<a \div b>>, <<>>)
            ELSE /\ (8 * v[1]) % v[2] = 0
                 /\ Abs(2 * ((8 * v[1]) \div v[2]) * b - 16 * a) <= b

\* ---- texts, as the claims about the decoder read them ----
ClaimBlankChars == {" ", "\n", "\t"}

ClaimBlank(t) == \A p \in 1..Len(t) : t[p] \in ClaimBlankChars

\* the text without its leading and trailing blank characters
ClaimTrim(t) ==
    IF ClaimBlank(t) THEN <<>>
    ELSE LET inked == {p \in 1..Len(t) : t[p] \notin ClaimBlankChars}
             first == CHOOSE p \in inked : \A q \in inked : p <= q
             last == CHOOSE p \in inked : \A q \in inked : q <= p
         IN  SubSeq(t, first, last)

\* the lines of a text
RECURSIVE ClaimLines(_)
ClaimLines(t) ==
    LET breaks == {p \in 1..Len(t) : t[p] = "\n"}
    IN  IF breaks = {} THEN <<t>>
        ELSE LET first == CHOOSE p \in breaks : \A q \in breaks : p <= q
             IN  <<SubSeq(t, 1, first - 1)>> \o ClaimLines(SubSeq(t, first + 1, Len(t)))

ClaimPrefix(line, lit) ==
    /\ Len(line) >= Len(lit)
    /\ \A p \in 1..Len(lit) : line[p] = lit[p]

RECURSIVE ClaimString(_)
ClaimString(chars) ==
    IF chars = <<>> THEN "" ELSE Head(chars) \o ClaimString(Tail(chars))

\* the base-unit directives of a text, and the value of one
ClaimUnitLines(t) == SelectSeq(ClaimLines(t), LAMBDA line : ClaimPrefix(line, <<"L", ":">>))

ClaimUnitValue(line) == SelectSeq(SubSeq(line, 3, Len(line)), LAMBDA c : c # " ")

\* the tempo directives of a text
ClaimTempoLines(t) == SelectSeq(ClaimLines(t), LAMBDA line : ClaimPrefix(line, <<"Q", ":">>))

\* the decoder has normalised the text it was given
Normalised == g_abc_code # <<>>

\* C13: when the text given to the decoder carries the base-unit directive
\* the encoder writes, every base-unit directive of the text handed to the
\* parser denotes that same unit, so durations are read in the unit they
\* were written in.
C13_RoundTripUnitsAgree ==
    (/\ Normalised
     /\ \E n \in 1..Len(ClaimLines(g_response)) :
            ClaimString(ClaimLines(g_response)[n]) = Header(120, 4, 4)[5])
    => \A n \in 1..Len(ClaimUnitLines(g_abc_code)) :
           ClaimString(ClaimUnitValue(ClaimUnitLines(g_abc_code)[n])) = "1/4"

\* C14: a text that is empty after trimming makes the decoder raise the
\* empty-input error with no temporary file and no MIDI file created, and
\* that error is raised for no other text.
C14_EmptyTextRaisesWithoutOutput ==
    /\ (g_response # <<>> /\ g_pc # "abc_to_midi" /\ ClaimBlank(g_response))
       => (g_pc = "raised" /\ g_error = ErrEmptyCode)
    /\ ClaimBlank(g_response) => (g_temp_abc = "none" /\ g_midi_file = FALSE)
    /\ g_error = ErrEmptyCode => (g_response # <<>> /\ ClaimBlank(g_response))

C14_Witness ==
    /\ g_response = <<" ", "\n", " ">>
    /\ g_pc = "raised"
    /\ g_error = ErrEmptyCode
    /\ g_temp_abc = "none"

\* C15: the decoder adds one "L: 1/8" line exactly when the trimmed text has
\* no L: line at all; a text with an L: line of any value gets none.
C15_UnitInjectedIffNoUnitLine ==
    Normalised =>
        LET before == ClaimUnitLines(ClaimTrim(g_response))
            after == ClaimUnitLines(g_abc_code)
        IN  IF before = <<>>
            THEN after = << <<"L", ":", " ", "1", "/", "8">> >>
            ELSE after = before

\* the tempo of a prompt: the digits of the leftmost "N bpm" (any blanks
\* between, any letter case), 120 when there is none
ClaimPromptTempo(prompt) ==
    LET IsBpm(p) == /\ p + 2 <= Len(prompt)
                    /\ prompt[p] \in {"b", "B"}
                    /\ prompt[p + 1] \in {"p", "P"}
                    /\ prompt[p + 2] \in {"m", "M"}
        spans == {ab \in (1..Len(prompt)) \X (1..Len(prompt)) :
                     /\ ab[1] <= ab[2]
                     /\ \A p \in ab[1]..ab[2] : prompt[p] \in Digits
                     /\ \E c \in (ab[2] + 1)..Len(prompt) :
                            /\ \A p \in (ab[2] + 1)..(c - 1) : prompt[p] \in ClaimBlankChars
                            /\ IsBpm(c)}
    IN  IF spans = {} THEN <<"1", "2", "0">>
        ELSE LET ab == CHOOSE x \in spans : \A y \in spans : x[1] <= y[1]
             IN  SubSeq(prompt, ab[1], ab[2])

\* C16: a Q: line is added exactly when the trimmed text has none; it is
\* the first line and carries the tempo of the prompt (120 when the prompt
\* names none); a text with a Q: line keeps its Q: lines as they are.
C16_TempoInjectedIffNoTempoLine ==
    Normalised =>
        LET before == ClaimTempoLines(ClaimTrim(g_response))
            after == ClaimTempoLines(g_abc_code)
            injected == <<"Q", ":", "1", "/", "4", "=">> \o ClaimPromptTempo(g_prompt)
        IN  IF before = <<>>
            THEN after = <<injected>> /\ ClaimLines(g_abc_code)[1] = injected
            ELSE after = before

C16_Witness ==
    /\ g_prompt = <<"j", "a", "z", "z">>
    /\ g_response = <<"K", ":", "C">>
    /\ ClaimString(ClaimLines(g_abc_code)[1]) = "Q:1/4=120"

\* the text without the ":" standing immediately before each "|"
RECURSIVE ClaimDropInserted(_)
ClaimDropInserted(t) ==
    IF t = <<>> THEN <<>>
    ELSE IF Len(t) >= 2 /\ t[1] = ":" /\ t[2] = "|"
         THEN <<"|">> \o ClaimDropInserted(SubSeq(t, 3, Len(t)))
    ELSE <<t[1]>> \o ClaimDropInserted(Tail(t))

C18_NoNullResult ==
    (call.fn \in {"abc_notes_to_midi", "convert_abc_and_play"} /\ ret # NoRet /\ ret.returned)
    => IF call.fn = "abc_notes_to_midi"
       THEN ret.value # None
       ELSE ret.value[1] # None /\ ret.value[2] # None

\* ---- the analyzer, as the claims read it ----
\* the scale degrees of the pitched notes of the call
ClaimDegrees ==
    {(call.notes[p].pitchClass - call.tonic) % 12 :
        p \in {q \in 1..Len(call.notes) : call.notes[q].kind = "Note"}}

ClaimCount(deg) ==
    Cardinality({p \in 1..Len(call.notes) :
                    /\ call.notes[p].kind = "Note"
                    /\ (call.notes[p].pitchClass - call.tonic) % 12 = deg})

\* the degrees with the highest count
ClaimWinners == {d \in ClaimDegrees : \A e \in ClaimDegrees : ClaimCount(e) <= ClaimCount(d)}

ClaimOrdering == {0, 2, 4, 5, 7, 9, 11}

ClaimTable(deg) ==
    IF deg = 0 THEN "I"
    ELSE IF deg = 2 THEN "ii"
    ELSE IF deg = 4 THEN "iii"
    ELSE IF deg = 5 THEN "IV"
    ELSE IF deg = 7 THEN "V"
    ELSE IF deg = 9 THEN "vi"
    ELSE IF deg = 11 THEN "vii°"
    ELSE "I"

Analyzed == call.fn = "analyze_melody_segment" /\ ret # NoRet /\ ClaimDegrees # {}

\* C19: when the degrees with the highest count all belong to the ordering
\* 0, 2, 4, 5, 7, 9, 11, the label is the one of the smallest of them,
\* whatever the order of the notes in the measure.
C19_TieBrokenByFixedOrdering ==
    (Analyzed /\ ClaimWinners \subseteq ClaimOrdering)
    => ret.value = ClaimTable(CHOOSE d \in ClaimWinners : \A e \in ClaimWinners : d <= e)

\* C20: the label is the table entry of a degree with the highest count,
\* and I when that degree is 1, 3, 6, 8 or 10.
C20_LabelFromTableElseTonic ==
    Analyzed => \E d \in ClaimWinners : ret.value = ClaimTable(d)

C20_Witness ==
    /\ Analyzed
    /\ call.tonic = 0
    /\ call.notes = <<Note(1), Note(6)>>
    /\ ret.value = "I"

\* C25: a note is appended only by a note end read in the track in which
\* its start was stored: a start left open at the end of a track is not
\* closed by a note end of a later track.
C25_NoteClosedInItsOwnTrack ==
    [][Len(notes') > Len(notes) => active_tracks[msg'.note] = track]_vars

\* C26: a note list of positive durations that sum to exactly N measures of
\* time_sig_num quarters, N >= 1, is returned with exactly N bar lines.
C26_OvershootCarried ==
    LET total == SumTicks(notes, 1, Len(notes))
        measure == time_sig_num * ticks_per_beat
    IN  (/\ pc = "done"
         /\ \A n \in 1..Len(notes) : notes[n][3][1] > 0
         /\ total >= measure
         /\ total % measure = 0)
        => BarCount(Body(abc_code)) = total \div measure

\* ---- the data folders, as the claims read them ----
ClaimHasNumber(c) == s_pc[c] \in {"prompt", "midi", "audio", "returned"}

ClaimStored == {prompt_folder, midi_folder, audio_folder}

\* C27: concurrent calls of save_files never hold the same file number, no
\* stored file of a call that returned is replaced by another call's, and
\* once n calls (all of them) have returned each folder holds the files
\* 1..n.
C27_DistinctFileNumbers ==
    /\ \A c, d \in Savers :
           (c # d /\ ClaimHasNumber(c) /\ ClaimHasNumber(d)) => file_count[c] # file_count[d]
    /\ \A c \in Savers :
           s_pc[c] = "returned" =>
               \A folder \in ClaimStored :
                   file_count[c] \in DOMAIN folder /\ folder[file_count[c]] = c
    /\ (\A c \in Savers : s_pc[c] = "returned") =>
           \A folder \in ClaimStored : DOMAIN folder = 1..MaxSavers

C29_TempAbcRemovedOnEveryExit ==
    (\/ g_pc \in {"play_midi", "save_files", "returned"}
     \/ (g_pc = "raised" /\ g_error \in {ErrEmptyCode, ErrParse}))
    => g_temp_abc # "exists"

\* C30: the preprocessing applied to the text it produced returns that text
\* unchanged.
C30_PreprocessingIdempotent ==
    Normalised => Normalize(g_abc_code, g_tempo) = g_abc_code

\* ---- the harmonizer, as the claims read it ----
Harmonized == call.fn = "process_midi_with_chords" /\ ret # NoRet

ClaimPitched(measure) == \E p \in 1..Len(measure) : measure[p].kind \in {"Note", "Chord"}

\* C21: a measure without pitched melody note puts exactly one rest and no
\* chord into the chord part, and the chord part holds exactly one chord or
\* rest for every measure of the melody.
C21_RestForMeasureWithoutPitch ==
    (Harmonized /\ ret.returned) =>
        \A m \in 1..Len(call.measures) :
            /\ Len(ret.value.chord_part[m]) = 1
            /\ ~ClaimPitched(call.measures[m]) => ret.value.chord_part[m][1].kind = "Rest"

\* C22: when the chord of the chosen label cannot be built, the call still
\* returns, with the tonic triad as chord of every measure that has notes or
\* rests.
C22_FallbackToTonicTriad ==
    (Harmonized /\ call.roman_raises) =>
        /\ ret.returned
        /\ \A m \in 1..Len(call.measures) :
               \A c \in 1..Len(ret.value.chord_part[m]) :
                   ret.value.chord_part[m][c].kind = "Chord"
                       => ret.value.chord_part[m][c].figure = "I"

\* C23: the melody part of the result holds, measure by measure, the
\* elements of the melody as they were, chords of simultaneous notes
\* included.
C23_MelodyUnchanged ==
    (Harmonized /\ ret.returned) =>
        \A m \in 1..Len(call.measures) : ret.value.melody_part_new[m] = call.measures[m]

\* C24: every chord of the chord part lasts one measure of the melody's
\* time signature: numerator * 4 / denominator quarter notes.
C24_ChordLastsOneMeasure ==
    (Harmonized /\ ret.returned) =>
        \A m \in 1..Len(call.measures) :
            \A c \in 1..Len(ret.value.chord_part[m]) :
                ret.value.chord_part[m][c].kind = "Chord"
                    => ret.value.chord_part[m][c].quarterLength * call.ts[2] = 4 * call.ts[1]
====
